---- MODULE Spec2Model ----
(***************************************************************************)
(* The 16 x 4 word puzzle of icepeng/puzzlebb: the generator that builds a *)
(* feasible instance, the two backtracking solvers (text memo key in       *)
(* src/puzzle/validate.ts, packed memo key in src/solvers/baseline.ts) and *)
(* the validator.                                                          *)
(*                                                                         *)
(* Conventions.  A JavaScript string is a sequence of one-character        *)
(* strings; a JavaScript array is a sequence, read with At(arr, i) and     *)
(* written with Put(arr, i, v), both 0-based as in the source.             *)
(***************************************************************************)
EXTENDS Integers, Sequences, FiniteSets, TLC

\* ------------------------------------------------------------------ sizes
NumRows == 16
NumCols == 4
\* const XCapacity = [4, 4, 4, 4]
InitXCapacity == 4

\* room for a second BX in a column
InitBXCapacityTwo == 1 + 1

\* const BXCapacity = [1, 1, 1, 1]
InitBXCapacity == 1

\* ------------------------------------------------------- arrays, strings
At(arr, i) == arr[i + 1]
Put(arr, i, v) == [arr EXCEPT ![i + 1] = v]
Fill(n, v) == [i \in 1..n |-> v]
Range(arr) == {arr[i] : i \in 1..Len(arr)}
Indices(arr) == 0..(Len(arr) - 1)

WA == <<"A">>
WB == <<"B">>
WAX == <<"A", "X">>
WBX == <<"B", "X">>
EmptyStr == <<>>
MarkedWords == {WAX, WBX}
FlaggedWords == {WB, WBX}
IsMarked(w) == w \in MarkedWords
IsFlagged(w) == w \in FlaggedWords
Words == {WA, WB, WAX, WBX}

\* UTF-16 code units of the characters that occur
CharCode(ch) ==
  CASE ch = " " -> 32
    [] ch = "A" -> 65
    [] ch = "B" -> 66
    [] ch = "X" -> 88
    [] ch = "Z" -> 90
    [] OTHER -> 63

IsSpace(ch) == ch = " "

\* a < b in code-unit order: -1, 0 or 1 (the default sort order, and the
\* order localeCompare gives the four labels)
RECURSIVE StrCompare(_, _)
StrCompare(a, b) ==
  IF a = <<>> /\ b = <<>> THEN 0
  ELSE IF a = <<>> THEN -1
  ELSE IF b = <<>> THEN 1
  ELSE IF CharCode(Head(a)) < CharCode(Head(b)) THEN -1
  ELSE IF CharCode(Head(a)) > CharCode(Head(b)) THEN 1
  ELSE StrCompare(Tail(a), Tail(b))

Includes(w, ch) == \E i \in 1..Len(w) : w[i] = ch

RECURSIVE TrimStart(_)
TrimStart(s) ==
  IF s # <<>> /\ IsSpace(Head(s)) THEN TrimStart(Tail(s)) ELSE s

RECURSIVE TrimEnd(_)
TrimEnd(s) ==
  IF s # <<>> /\ IsSpace(s[Len(s)]) THEN TrimEnd(SubSeq(s, 1, Len(s) - 1)) ELSE s

Trim(s) == TrimEnd(TrimStart(s))

\* s.split(/\s+/): the pieces between maximal runs of white space; a run at
\* either end leaves an empty piece there, and the empty string gives [""]
RECURSIVE SplitFrom(_, _)
SplitFrom(s, cur) ==
  IF s = <<>> THEN <<cur>>
  ELSE IF IsSpace(Head(s))
       THEN IF Len(s) > 1 /\ IsSpace(s[2])
            THEN SplitFrom(Tail(s), cur)
            ELSE <<cur>> \o SplitFrom(Tail(s), <<>>)
       ELSE SplitFrom(Tail(s), Append(cur, Head(s)))

Split(s) == SplitFrom(s, <<>>)

RECURSIVE Join(_, _)
Join(parts, sep) ==
  IF parts = <<>> THEN <<>>
  ELSE IF Len(parts) = 1 THEN parts[1]
  ELSE parts[1] \o sep \o Join(Tail(parts), sep)

\* Array.prototype.sort with a consistent comparator: stable
\* cmp[<<a, b>>] is compareFn(a, b) for the elements a, b of arr
StableSort(arr, cmp) ==
  LET n == Len(arr)
      Rank(i) == Cardinality({j \in 1..n :
                    \/ cmp[<<arr[j], arr[i]>>] < 0
                    \/ (cmp[<<arr[j], arr[i]>>] = 0 /\ j < i)})
  IN [r \in 1..n |-> arr[CHOOSE i \in 1..n : Rank(i) = r - 1]]

\* Array.prototype.indexOf
IndexOf(arr, x) ==
  IF \E i \in 1..Len(arr) : arr[i] = x
  THEN (CHOOSE i \in 1..Len(arr) : arr[i] = x /\ \A j \in 1..(i - 1) : arr[j] # x) - 1
  ELSE -1

\* Number.prototype.toString() of an integer
DigitChar(d) == At(<<"0", "1", "2", "3", "4", "5", "6", "7", "8", "9",
                     "a", "b", "c", "d", "e", "f", "g", "h", "i", "j",
                     "k", "l", "m", "n", "o", "p", "q", "r", "s", "t",
                     "u", "v", "w", "x", "y", "z">>, d)

RECURSIVE NatStr(_)
NatStr(n) == IF n < 10 THEN <<DigitChar(n)>> ELSE Append(NatStr(n \div 10), DigitChar(n % 10))

NumStr(n) == IF n < 0 THEN <<"-">> \o NatStr(0 - n) ELSE NatStr(n)

RECURSIVE SumSeq(_)
SumSeq(arr) == IF arr = <<>> THEN 0 ELSE Head(arr) + SumSeq(Tail(arr))

\* ------------------------------------------ baselineSolver: parsing input
ORDER == <<WBX, WAX, WB, WA>>

OrderCompare(a, b) == IndexOf(ORDER, a) - IndexOf(ORDER, b)

\* inputLines.map(line => line.trim().split(/\s+/).sort(by ORDER))
ParseRows(lines) ==
  [i \in 1..Len(lines) |->
     LET ws == Split(Trim(lines[i]))
     IN StableSort(ws, [p \in Range(ws) \X Range(ws) |-> OrderCompare(p[1], p[2])])]

\* the check of the labels left out
InputErrorNoLabels(lines) ==
  LET parsed == ParseRows(lines) IN
  IF Len(lines) # NumRows THEN "lines"
  ELSE IF ~ \A i \in 1..Len(parsed) : Len(parsed[i]) = NumCols THEN "words"
  ELSE ""

\* the three throws that precede the search: "" when the input is accepted
InputError(lines) ==
  LET parsed == ParseRows(lines) IN
  IF Len(lines) # NumRows THEN "lines"
  ELSE IF ~ \A i \in 1..Len(parsed) : Len(parsed[i]) = NumCols THEN "words"
  ELSE IF \E i \in 1..NumRows : \E k \in 1..NumCols : parsed[i][k] \notin Words
       THEN "label"
  ELSE ""

HasB(rws) == [i \in 1..Len(rws) |-> [k \in 1..Len(rws[i]) |-> Includes(rws[i][k], "B")]]

CountB(row) == Cardinality({k \in 1..Len(row) : Includes(row[k], "B")})

TotalB(rws) == [i \in 1..Len(rws) |-> CountB(rws[i])]

XIsBX(rws) == [i \in 1..Len(rws) |-> At(rws[i], 0) = WBX]

\* rowOrder.sort: BX rows first, then fewer B first
RowOrder(rws) ==
  LET xb == XIsBX(rws)
      tb == TotalB(rws)
      Cmp(i, j) == IF At(xb, i) /\ ~At(xb, j) THEN -1
                   ELSE IF ~At(xb, i) /\ At(xb, j) THEN 1
                   ELSE At(tb, i) - At(tb, j)
      idx == [i \in 1..Len(rws) |-> i - 1]
  IN StableSort(idx, [p \in Range(idx) \X Range(idx) |-> Cmp(p[1], p[2])])

\* uniquePermutationsOf3: the backtracking over combined, which is the
\* (word, index) pairs sorted by word; pushes each distinct word order once
CombinedCompare(a, b) == StrCompare(a.w, b.w)

RECURSIVE backtrack(_, _, _)
backtrack(combined, used, perm) ==
  IF Len(perm) = 3 THEN <<perm>>
  ELSE LET Try(i) ==
             IF At(used, i) THEN <<>>
             ELSE IF i > 0 /\ ~At(used, i - 1)
                           /\ At(combined, i).w = At(combined, i - 1).w THEN <<>>
             ELSE backtrack(combined, Put(used, i, TRUE),
                            Append(perm, At(combined, i).i))
       IN Try(0) \o Try(1) \o Try(2)

uniquePermutationsOf3(words, idxs) ==
  LET pairs == [n \in 1..3 |-> [w |-> words[n], i |-> idxs[n]]]
      combined == StableSort(pairs, [p \in Range(pairs) \X Range(pairs) |->
                                       CombinedCompare(p[1], p[2])])
  IN backtrack(combined, <<FALSE, FALSE, FALSE>>, <<>>)

makeUniquePerms3(rws, rowIdx) ==
  LET others == <<1, 2, 3>>
      words == [n \in 1..3 |-> At(At(rws, rowIdx), others[n])]
  IN uniquePermutationsOf3(words, others)

RowNonXPerms(rws) == [i \in 1..Len(rws) |-> makeUniquePerms3(rws, i - 1)]

\* ------------------------------------------------- encodeState, text key
\* [pos, XCapacity.join(","), BXCapacity.join(","), BCount.join(",")].join("|")
NumJoin(arr) == Join([i \in 1..Len(arr) |-> NumStr(arr[i])], <<",">>)

encodeStateText(pos, XCap, BXCap, BCnt) ==
  Join(<<NumStr(pos), NumJoin(XCap), NumJoin(BXCap), NumJoin(BCnt)>>, <<"|">>)

\* ----------------------------------------------- encodeState, packed key
\* A 32-bit integer is the set of its 1 bits, bit 0 the lowest.  The bitwise
\* operators of the language work on 32 bits and take a shift count
\* modulo 32.
WordBits == 0..31

Pow2[n \in 0..30] == IF n = 0 THEN 1 ELSE 2 * Pow2[n - 1]

\* ToInt32 of a small non-negative integer
BitsOf(n) == {i \in 0..30 : (n \div Pow2[i]) % 2 = 1}

BitAnd(x, y) == x \cap y
BitOr(x, y) == x \cup y
ShiftLeft(x, count) == {i + (count % 32) : i \in x} \cap WordBits

RECURSIVE PackCounts(_, _, _, _)
\* for (c = from; c < 4; c++) acc |= (arr[c] & mask) << (width * c)
PackCounts(arr, mask, width, c) ==
  IF c >= NumCols THEN {}
  ELSE BitOr(ShiftLeft(BitAnd(BitsOf(At(arr, c)), BitsOf(mask)), width * c),
             PackCounts(arr, mask, width, c + 1))

PackedState(pos, XCap, BXCap, BCnt) ==
  LET s1 == PackCounts(BCnt, 31, 5, 0)
      bxPart == PackCounts(BXCap, 1, 1, 0)
      s2 == BitOr(s1, ShiftLeft(bxPart, 20))
      xPart == PackCounts(XCap, 7, 3, 0)
      s3 == BitOr(s2, ShiftLeft(xPart, 24))
  IN BitOr(s3, ShiftLeft(BitAnd(BitsOf(pos), BitsOf(31)), 36))

\* Number.prototype.toString(36) of a 32-bit integer, kept as two 16-bit
\* halves so that no intermediate value leaves the 32-bit range
RECURSIVE HalfValue(_, _, _)
HalfValue(bits, from, n) ==
  IF n = 0 THEN 0
  ELSE (IF (from + n - 1) \in bits THEN Pow2[n - 1] ELSE 0) + HalfValue(bits, from, n - 1)

\* the digits to base 36 of hi * 2^16 + lo, by long division
Digits36[hl \in (0..65535) \X (0..65535)] ==
  LET hi == hl[1]
      lo == hl[2]
      t == (hi % 36) * 65536 + lo
      qhi == hi \div 36
      qlo == t \div 36
      d == <<DigitChar(t % 36)>>
  IN IF qhi = 0 /\ qlo = 0 THEN d ELSE Digits36[<<qhi, qlo>>] \o d

ToString36[bits \in SUBSET WordBits] ==
  LET hi == HalfValue(bits, 16, 16)
      lo == HalfValue(bits, 0, 16)
      \* magnitude of a negative value: 2^32 - (hi * 2^16 + lo)
      nlo == (65536 - lo) % 65536
      nhi == (65535 - hi) + (IF lo = 0 THEN 1 ELSE 0)
  IN IF 31 \in bits THEN <<"-">> \o Digits36[<<nhi, nlo>>] ELSE Digits36[<<hi, lo>>]

encodeStatePacked(pos, XCap, BXCap, BCnt) ==
  ToString36[PackedState(pos, XCap, BXCap, BCnt)]

\* ------------------------------------------------------ generatePuzzleData
\* splitmix32 (src/utils/prng) is not among the sources: the generator only
\* needs a stream of numbers in [0, 1) fixed by the seed.  The stream is a
\* 16-bit mix of the seed and the draw number; a draw is its numerator over
\* 2^16.
RandModulus == 65536

\* draw number n of the stream seeded with a: two rounds of multiply and fold
RandNext(a, n) ==
  LET h == (a * 40503 + n * 25173 + 13849) % RandModulus
      g == ((h \div 256) * (h % 256) + h * 31 + n) % RandModulus
  IN (g * 20021 + 7) % RandModulus

\* the first n draws of the stream seeded with a
splitmix32(a, n) == [i \in 1..n |-> RandNext(a, i - 1)]

\* Math.floor(rand() * m) for draw number n
FloorRand(rand, n, m) == (At(rand, n) * m) \div RandModulus

Swap(arr, i, j) == Put(Put(arr, i, At(arr, j)), j, At(arr, i))

RECURSIVE ShuffleFrom(_, _, _, _)
\* the loop of shuffle from index i down: draw number n decides j
ShuffleFrom(rand, n, arr, i) ==
  IF i <= 0 THEN arr
  ELSE ShuffleFrom(rand, n + 1, Swap(arr, i, FloorRand(rand, n, i + 1)), i - 1)

\* shuffle(arr) with the draws n, n+1, ...; it takes Len(arr) - 1 of them
shuffle(rand, n, arr) == ShuffleFrom(rand, n, arr, Len(arr) - 1)

ShuffleDraws(arr) == IF Len(arr) = 0 THEN 0 ELSE Len(arr) - 1

\* sample(arr, count): shuffle a copy and take the first count
sample(rand, n, arr, count) ==
  LET copy == shuffle(rand, n, arr) IN SubSeq(copy, 1, count)

SeqToSet(arr) == {arr[i] : i \in 1..Len(arr)}

\* the rows r (ascending) whose cell in column c holds no X
NonXRows(sol, c) ==
  LET keep == {r \in 0..(NumRows - 1) : ~Includes(At(At(sol, r), c), "X")}
      RECURSIVE Asc(_)
      Asc(r) == IF r >= NumRows THEN <<>>
                ELSE (IF r \in keep THEN <<r>> ELSE <<>>) \o Asc(r + 1)
  IN Asc(0)

\* the test for the drawn row left out: every X of a chosen column a BX
PlaceXColEveryRow(st, rand, XRowsByCol, chosen, c) ==
  LET theseRows == At(XRowsByCol, c)
      isChosen == c \in SeqToSet(chosen)
  IN [sol |-> [r \in 1..NumRows |->
                 IF (r - 1) \in SeqToSet(theseRows)
                 THEN Put(st.sol[r], c, IF isChosen THEN WBX ELSE WAX)
                 ELSE st.sol[r]],
      n |-> IF isChosen THEN st.n + 1 ELSE st.n]

\* step 3 for column c: the X words of the column; returns [sol, n]
PlaceXCol(st, rand, XRowsByCol, chosen, c) ==
  LET theseRows == At(XRowsByCol, c)
      isChosen == c \in SeqToSet(chosen)
      bxRow == At(theseRows, FloorRand(rand, st.n, Len(theseRows)))
  IN [sol |-> [r \in 1..NumRows |->
                 IF (r - 1) \in SeqToSet(theseRows)
                 THEN Put(st.sol[r], c, IF isChosen /\ (r - 1) = bxRow THEN WBX ELSE WAX)
                 ELSE st.sol[r]],
      n |-> IF isChosen THEN st.n + 1 ELSE st.n]

\* for (c = 0; c < 4; c++)
PlaceX(st, rand, XRowsByCol, chosen) ==
  PlaceXCol(PlaceXCol(PlaceXCol(PlaceXCol(st, rand, XRowsByCol, chosen, 0),
                                rand, XRowsByCol, chosen, 1),
                      rand, XRowsByCol, chosen, 2),
            rand, XRowsByCol, chosen, 3)

\* step 4 for column c: B or A in the cells without X; returns [sol, n, err]
PlaceBCol(st, rand, BNeeded, c) ==
  LET colBX == Cardinality({r \in 1..NumRows : At(st.sol[r], c) = WBX})
      bToAssign == At(BNeeded, c) - colBX
      nonXRows == NonXRows(st.sol, c)
      chosenBSet == SeqToSet(sample(rand, st.n, nonXRows, bToAssign))
  IN IF st.err \/ bToAssign < 0 \/ bToAssign > Len(nonXRows)
     THEN [sol |-> st.sol, n |-> st.n, err |-> TRUE]
     ELSE [sol |-> [r \in 1..NumRows |->
                      IF (r - 1) \in SeqToSet(nonXRows)
                      THEN Put(st.sol[r], c, IF (r - 1) \in chosenBSet THEN WB ELSE WA)
                      ELSE st.sol[r]],
           n |-> st.n + ShuffleDraws(nonXRows),
           err |-> FALSE]

\* for (c = 0; c < 4; c++)
PlaceB(st, rand, BNeeded) ==
  PlaceBCol(PlaceBCol(PlaceBCol(PlaceBCol(st, rand, BNeeded, 0),
                                rand, BNeeded, 1),
                      rand, BNeeded, 2),
            rand, BNeeded, 3)

\* draws one call can take: 4 + 15 + 1 + 3 + 4 + 4 * 11 + 16 * 3
MaxDraws == 119

\* the bxCount option: 0 | 1 | 2 | 3 | 4 | "random"
BXExact(k) == [random |-> FALSE, count |-> k]
BXRandom == [random |-> TRUE, count |-> 0]

\* generatePuzzleData({seed, bxCount}): [err, solution, lines]
generatePuzzleData(seed, bxCount) ==
  LET rand == splitmix32(seed, MaxDraws)
      \* 1) B per column
      BNeeded == [c \in 1..NumCols |-> IF 2 * At(rand, c - 1) < RandModulus THEN 4 ELSE 5]
      \* 2) the rows of each column's X
      rowIndices == shuffle(rand, NumCols, [i \in 1..NumRows |-> i - 1])
      XRowsByCol == [c \in 1..NumCols |-> SubSeq(rowIndices, 4 * (c - 1) + 1, 4 * c)]
      n2 == NumCols + (NumRows - 1)
      \* 3) how many columns, and which, hold a BX
      numBXColumns == IF bxCount.random THEN FloorRand(rand, n2, 5) ELSE bxCount.count
      n3 == IF bxCount.random THEN n2 + 1 ELSE n2
      chosenColumnsForBX == sample(rand, n3, <<0, 1, 2, 3>>, numBXColumns)
      n4 == n3 + 3
      blank == Fill(NumRows, Fill(NumCols, EmptyStr))
      withX == PlaceX([sol |-> blank, n |-> n4], rand, XRowsByCol, chosenColumnsForBX)
      \* 4) B and A
      withB == PlaceB([sol |-> withX.sol, n |-> withX.n, err |-> FALSE], rand, BNeeded)
      \* 5) each row shuffled and joined
      puzzleLines == [r \in 1..NumRows |->
                        Join(shuffle(rand, withB.n + 3 * (r - 1), withB.sol[r]), <<" ">>)]
  IN IF withB.err THEN [err |-> TRUE, solution |-> withB.sol, lines |-> <<>>]
     ELSE [err |-> FALSE, solution |-> withB.sol, lines |-> puzzleLines]

\* ------------------------------------------------------------ validatePuzzle
\* reading an array past its end
Undefined == <<"undefined">>

Nth(arr, k) == IF k < Len(arr) THEN At(arr, k) ELSE Undefined

\* [...arr].sort(): by UTF-16 code units
DefaultSort(arr) ==
  StableSort(arr, [p \in Range(arr) \X Range(arr) |-> StrCompare(p[1], p[2])])


ColCount(solution, j, ws) ==
  Cardinality({i \in 0..(NumRows - 1) : At(At(solution, i), j) \in ws})

validatePuzzle(input, solution) ==
  LET originalRows == [i \in 1..Len(input) |-> Split(input[i])]
      rowOk(i) == LET sortedOriginal == DefaultSort(At(originalRows, i))
                      sortedSolution == DefaultSort(At(solution, i))
                  IN \A k \in 0..3 : Nth(sortedOriginal, k) = Nth(sortedSolution, k)
  IN /\ \A i \in 0..(NumRows - 1) : rowOk(i)
     /\ \A j \in 0..(NumCols - 1) :
          /\ ColCount(solution, j, MarkedWords) = 4
          /\ ColCount(solution, j, FlaggedWords) >= 4
          /\ ColCount(solution, j, {WBX}) <= 1

\* ------------------------------------------------------------ B pruning
MinB == 4

\* the comparison taken strictly: a column that can just reach 4 is given up
canStillReach4BStrict(BCnt, c, rowsLeft) == At(BCnt, c) + rowsLeft > MinB

canStillReach4B(BCnt, c, rowsLeft) == At(BCnt, c) + rowsLeft >= MinB

\* the subtraction turned around
isOverloadedBSwapped(BCnt, c, totalBInPuzzle) == At(BCnt, c) > 12 - totalBInPuzzle

isOverloadedB(BCnt, c, totalBInPuzzle) == At(BCnt, c) > totalBInPuzzle - 12

\* ------------------------------------------------------------ the inputs
\* The drivers (fuzzy-test, bench) feed the generator's lines to the solvers.
\* The other inputs are those lines with one edit, which reach the input
\* checks and the whitespace handling of the parser and of the validator.
WordsOf(line) == Split(Trim(line))

LineOf(words) == Join(words, <<" ">>)

\* the 0-based place of the first word of the row that is one of ws
FirstWhere(words, ws) ==
  CHOOSE k \in Indices(words) :
    At(words, k) \in ws /\ \A j \in Indices(words) : j < k => At(words, j) \notin ws

\* line r with its first unmarked word marked as well
MarkSecond(lines, r) ==
  LET ws == WordsOf(At(lines, r))
      k == FirstWhere(ws, Words \ MarkedWords)
  IN Put(lines, r, LineOf(Put(ws, k, At(ws, k) \o <<"X">>)))

\* the row with an A word that the search takes last, with its first A marked:
\* the row keeps its place in rowOrder and has two marked words
MarkLate(lines) ==
  LET rws == ParseRows(lines)
      ord == RowOrder(rws)
      cand == {p \in Indices(ord) : WA \in Range(At(rws, At(ord, p)))}
      r == At(ord, CHOOSE p \in cand : \A q \in cand : q <= p)
      ws == WordsOf(At(lines, r))
  IN Put(lines, r, LineOf(Put(ws, FirstWhere(ws, {WA}), WAX)))

\* line r with the mark of its marked word removed
Unmark(lines, r) ==
  LET ws == WordsOf(At(lines, r))
      k == FirstWhere(ws, MarkedWords)
  IN Put(lines, r, LineOf(Put(ws, k, <<At(ws, k)[1]>>)))

\* every B of the lines turned into A: fewer than 16 flagged words remain
RECURSIVE Unflag(_)
Unflag(line) ==
  IF line = <<>> THEN <<>>
  ELSE <<IF Head(line) = "B" THEN "A" ELSE Head(line)>> \o Unflag(Tail(line))

CountWords(lines, ws) ==
  SumSeq([i \in 1..Len(lines) |->
            Cardinality({k \in Indices(WordsOf(lines[i])) : At(WordsOf(lines[i]), k) \in ws})])

MarkedWord(line) == At(WordsOf(line), FirstWhere(WordsOf(line), MarkedWords))

Min(a, b) == IF a < b THEN a ELSE b
Max(a, b) == IF a > b THEN a ELSE b

\* the same marked words and as many flagged words, the B three to a row
\* from the first row on: a solvable instance the search has to back out of
PackFlags(lines) ==
  LET left == CountWords(lines, FlaggedWords) - CountWords(lines, {WBX})
      k(r) == Min(3, Max(0, left - 3 * r))
  IN [i \in 1..Len(lines) |->
        LineOf(<<MarkedWord(lines[i])>> \o [n \in 1..3 |-> IF n <= k(i - 1) THEN WB ELSE WA])]

\* the first AX words turned into BX until there are MaxBX + 1 BX: one more
\* than the columns can take, a BX to a column
MaxBX == NumCols

OverMark(lines) ==
  LET need == (MaxBX + 1) - CountWords(lines, {WBX})
      before(r) == Cardinality({q \in 0..(r - 1) : MarkedWord(At(lines, q)) = WAX})
  IN [i \in 1..Len(lines) |->
        IF MarkedWord(lines[i]) = WAX /\ before(i - 1) < need
        THEN LineOf(Put(WordsOf(lines[i]), FirstWhere(WordsOf(lines[i]), MarkedWords), WBX))
        ELSE lines[i]]

Variants == {"asis", "fewLines", "fewWords", "badLabel",
             "leadingSpace", "trailingSpace", "wideSpace",
             "twoMarked", "twoMarkedLate", "noMarked", "noFlags", "packFlags",
             "overMark"}

ApplyVariant(v, lines) ==
  CASE v = "asis" -> lines
    [] v = "fewLines" -> SubSeq(lines, 1, Len(lines) - 1)
    [] v = "fewWords" -> Put(lines, 0, LineOf(Tail(WordsOf(At(lines, 0)))))
    [] v = "badLabel" -> Put(lines, 0, LineOf(Put(WordsOf(At(lines, 0)), 0, <<"Z">>)))
    [] v = "leadingSpace" -> Put(lines, 0, <<" ">> \o At(lines, 0))
    [] v = "trailingSpace" -> Put(lines, 0, At(lines, 0) \o <<" ">>)
    [] v = "wideSpace" -> Put(lines, 0, Join(WordsOf(At(lines, 0)), <<" ", " ">>))
    [] v = "twoMarked" -> MarkSecond(lines, 0)
    [] v = "twoMarkedLate" -> MarkLate(lines)
    [] v = "noMarked" -> Unmark(lines, 0)
    [] v = "noFlags" -> [i \in 1..Len(lines) |-> Unflag(lines[i])]
    [] v = "packFlags" -> PackFlags(lines)
    [] v = "overMark" -> OverMark(lines)

\* ------------------------------------------------------------ the state
VARIABLES
  seed,              \* the driver's seed
  bxCount,           \* the generator's bxCount option
  puzzle,            \* what generatePuzzleData returned
  variant,           \* the edit made to the generated lines
  inputLines,        \* the solver's argument
  pc,                \* where the driver or the running solver stands
  solver,            \* which solver runs: "text" or "packed"
  rows,              \* the parsed rows, X word first
  totalBInPuzzle,
  rowOrder,
  rowNonXPerms,
  finalArrangement,
  XCapacity,
  BXCapacity,
  BCount,
  memo,              \* Map<string, boolean>
  prevColX,          \* written by the text-key solver only
  stack,             \* the assignRow frames, innermost last
  arg,               \* the pos of the call being made
  ret,               \* the value the last call returned
  outcome,           \* per solver: "none", "grid", "NoSolution", "MalformedInput"
  grid,              \* per solver: the grid it returned
  verdict,           \* per solver: what validatePuzzle said of its grid
  searched,          \* per solver: assignRow was called
  probe              \* two search states and their memo keys

vars == <<seed, bxCount, puzzle, variant, inputLines, pc, solver, rows,
          totalBInPuzzle, rowOrder, rowNonXPerms, finalArrangement, XCapacity, BXCapacity, BCount, memo, prevColX,
          stack, arg, ret, outcome, grid, verdict, searched, probe>>

driverVars == <<seed, bxCount, puzzle, variant, inputLines, probe>>
searchVars == <<rows, totalBInPuzzle, rowOrder, rowNonXPerms, finalArrangement, XCapacity, BXCapacity, BCount, memo,
                prevColX, stack, arg, ret>>
resultVars == <<outcome, grid, verdict, searched>>
NoProbe == <<>>

Solvers == {"text", "packed"}

\* the seeds the driver loop runs through
NumSeeds == 3

NoPuzzle == [err |-> FALSE, solution |-> <<>>, lines |-> <<>>]
NoGrid == <<>>
EmptyMemo == <<>>
BlankGrid == Fill(NumRows, Fill(NumCols, EmptyStr))

\* the locals of a solver that is not running
IdleSearch ==
  /\ rows = <<>>
  /\ totalBInPuzzle = 0
  /\ rowOrder = <<>>
  /\ rowNonXPerms = <<>>
  /\ finalArrangement = <<>>
  /\ XCapacity = <<>>
  /\ BXCapacity = <<>>
  /\ BCount = <<>>
  /\ memo = EmptyMemo
  /\ prevColX = -1
  /\ stack = <<>>
  /\ arg = 0
  /\ ret = FALSE

\* the locals go out of scope when the solver returns or throws
ResetSearch ==
  /\ rows' = <<>>
  /\ totalBInPuzzle' = 0
  /\ rowOrder' = <<>>
  /\ rowNonXPerms' = <<>>
  /\ finalArrangement' = <<>>
  /\ XCapacity' = <<>>
  /\ BXCapacity' = <<>>
  /\ BCount' = <<>>
  /\ memo' = EmptyMemo
  /\ prevColX' = -1
  /\ stack' = <<>>
  /\ arg' = 0
  /\ ret' = FALSE

NoResults ==
  /\ outcome = [k \in Solvers |-> "none"]
  /\ grid = [k \in Solvers |-> NoGrid]
  /\ verdict = [k \in Solvers |-> "none"]
  /\ searched = [k \in Solvers |-> FALSE]

Init ==
  /\ seed \in 0..(NumSeeds - 1)
  /\ bxCount = BXRandom
  /\ puzzle = NoPuzzle
  /\ variant = "asis"
  /\ inputLines = <<>>
  /\ pc = "generate"
  /\ solver = "none"
  /\ IdleSearch
  /\ NoResults
  /\ probe = NoProbe

\* const puzzle = generatePuzzleData(seed)
Generate ==
  /\ pc = "generate"
  /\ puzzle' = generatePuzzleData(seed, bxCount)
  /\ pc' = IF puzzle'.err THEN "done" ELSE "feed"
  /\ UNCHANGED <<seed, bxCount, variant, inputLines, solver, probe>>
  /\ UNCHANGED searchVars
  /\ UNCHANGED resultVars

\* the input of the solvers: the generated lines, or an edit of them
Feed(v) ==
  /\ pc = "feed"
  /\ variant' = v
  /\ inputLines' = ApplyVariant(v, puzzle.lines)
  /\ pc' = "idle"
  /\ UNCHANGED <<seed, bxCount, puzzle, solver, probe>>
  /\ UNCHANGED searchVars
  /\ UNCHANGED resultVars

\* ------------------------------------------------------------ baselineSolver
\* the driver calls the text-key solver, checks its grid, then the same for
\* the packed-key solver
NextSolver ==
  IF outcome["text"] = "none" THEN "text"
  ELSE IF outcome["text"] = "grid" /\ verdict["text"] = "none" THEN "check text"
  ELSE IF outcome["packed"] = "none" THEN "packed"
  ELSE IF outcome["packed"] = "grid" /\ verdict["packed"] = "none" THEN "check packed"
  ELSE "done"

\* baselineSolver(inputLines) up to the first assignRow(0): the three throws,
\* or the locals set up and the search started
CallSolver(k) ==
  /\ pc = "idle"
  /\ NextSolver = k
  /\ IF InputError(inputLines) # ""
     THEN /\ outcome' = [outcome EXCEPT ![k] = "MalformedInput"]
          /\ UNCHANGED <<pc, solver, searched>>
          /\ UNCHANGED searchVars
     ELSE /\ solver' = k
          /\ rows' = ParseRows(inputLines)
          /\ totalBInPuzzle' = SumSeq(TotalB(rows'))
          /\ rowOrder' = RowOrder(rows')
          /\ rowNonXPerms' = RowNonXPerms(rows')
          /\ finalArrangement' = BlankGrid
          /\ XCapacity' = Fill(NumCols, InitXCapacity)
          /\ BXCapacity' = Fill(NumCols, InitBXCapacity)
          /\ BCount' = Fill(NumCols, 0)
          /\ memo' = EmptyMemo
          /\ stack' = <<>>
          /\ arg' = 0
          /\ pc' = "call"
          /\ searched' = [searched EXCEPT ![k] = TRUE]
          /\ UNCHANGED <<prevColX, ret, outcome>>
  /\ UNCHANGED <<grid, verdict>>
  /\ UNCHANGED driverVars

encodeState(pos) ==
  IF solver = "text" THEN encodeStateText(pos, XCapacity, BXCapacity, BCount)
  ELSE encodeStatePacked(pos, XCapacity, BXCapacity, BCount)

\* if (pos === 16): the final constraints
FinalCheck ==
  \A c \in 0..(NumCols - 1) :
    /\ At(XCapacity, c) = 0
    /\ At(BCount, c) >= MinB
    /\ At(BXCapacity, c) >= 0

Top == stack[Len(stack)]
SetTop(f) == [stack EXCEPT ![Len(stack)] = f]
Pop == SubSeq(stack, 1, Len(stack) - 1)

\* the locals of a call; entry is not a local: it records the column state
\* the call was entered in
NewFrame(pos, key) ==
  [pos |-> pos, stateKey |-> key, at |-> "col", colX |-> 0, pi |-> 0,
   oldXCap |-> 0, oldBXCap |-> 0, oldB |-> <<>>, oldB2 |-> <<>>,
   entry |-> <<XCapacity, BXCapacity, BCount>>]

\* the test taken one row too late
AtEndLate(pos) == pos = NumRows + 1

\* if (pos === 16)
AtEnd(pos) == pos = NumRows

\* assignRow(pos) from its entry to the column loop: the final check at
\* pos 16, the memo lookup, or a new frame
Enter ==
  /\ pc = "call"
  /\ IF AtEnd(arg)
     THEN /\ ret' = FinalCheck
          /\ pc' = "return"
          /\ UNCHANGED stack
     ELSE LET stateKey == encodeState(arg) IN
          IF stateKey \in DOMAIN memo
          THEN /\ ret' = memo[stateKey]
               /\ pc' = "return"
               /\ UNCHANGED stack
          ELSE /\ stack' = Append(stack, NewFrame(arg, stateKey))
               /\ pc' = "loop"
               /\ UNCHANGED ret
  /\ UNCHANGED <<solver, rows, totalBInPuzzle, rowOrder, rowNonXPerms,
                 finalArrangement, XCapacity, BXCapacity, BCount, memo,
                 prevColX, arg>>
  /\ UNCHANGED driverVars
  /\ UNCHANGED resultVars

parsedVars == <<rows, totalBInPuzzle, rowOrder, rowNonXPerms>>

\* the result of a call not stored
memoSetNothing(key, value) == memo

\* every result stored as true
memoSetTrue(key, value) == (key :> TRUE) @@ memo

\* memo.set(stateKey, value)
memoSet(key, value) == (key :> value) @@ memo

\* one turn of "for (colX = 0; colX < 4; colX++)": the loop is over and the
\* state is memoised as failed, the column is skipped, or the X is placed
TryColumn ==
  /\ pc = "loop"
  /\ Top.at = "col"
  /\ LET f == Top
         rIdx == At(rowOrder, f.pos)
         row == At(rows, rIdx)
         isBX == At(XIsBX(rows), rIdx)
         colX == f.colX
     IN IF colX = NumCols
        THEN /\ memo' = memoSet(f.stateKey, FALSE)
             /\ stack' = Pop
             /\ ret' = FALSE
             /\ pc' = "return"
             /\ UNCHANGED <<finalArrangement, XCapacity, BXCapacity, BCount>>
        ELSE IF At(XCapacity, colX) <= 0 \/ (isBX /\ At(BXCapacity, colX) <= 0)
        THEN /\ stack' = SetTop([f EXCEPT !.colX = colX + 1])
             /\ UNCHANGED <<finalArrangement, XCapacity, BXCapacity, BCount,
                            memo, ret, pc>>
        ELSE /\ stack' = SetTop([f EXCEPT !.at = "perm", !.pi = 0,
                                          !.oldXCap = At(XCapacity, colX),
                                          !.oldBXCap = At(BXCapacity, colX),
                                          !.oldB = BCount])
             /\ finalArrangement' =
                  Put(finalArrangement, rIdx,
                      Put(At(finalArrangement, rIdx), colX, At(row, 0)))
             /\ XCapacity' = Put(XCapacity, colX, At(XCapacity, colX) - 1)
             /\ BXCapacity' = IF isBX
                              THEN Put(BXCapacity, colX, At(BXCapacity, colX) - 1)
                              ELSE BXCapacity
             /\ BCount' = IF At(At(HasB(rows), rIdx), 0)
                          THEN Put(BCount, colX, At(BCount, colX) + 1)
                          ELSE BCount
             /\ UNCHANGED <<memo, ret, pc>>
  /\ UNCHANGED <<solver, prevColX, arg>>
  /\ UNCHANGED parsedVars
  /\ UNCHANGED driverVars
  /\ UNCHANGED resultVars

\* [0, 1, 2, 3].filter(c => c !== colX)
OtherCols(colX) == SelectSeq(<<0, 1, 2, 3>>, LAMBDA c : c # colX)

\* the loop over i3 stopping one short: the last word is counted, not placed
RECURSIVE PlaceWordsShort(_, _, _, _, _, _)
PlaceWordsShort(cells, BCnt, row, hasBRow, p3, others) ==
  IF p3 = <<>> THEN [cells |-> cells, BCount |-> BCnt]
  ELSE LET wIndex == Head(p3)
           c == Head(others)
       IN PlaceWordsShort(IF Len(p3) = 1 THEN cells ELSE Put(cells, c, At(row, wIndex)),
                          IF At(hasBRow, wIndex) THEN Put(BCnt, c, At(BCnt, c) + 1)
                          ELSE BCnt,
                          row, hasBRow, Tail(p3), Tail(others))

\* the three words of the row placed by p3: [finalArrangement row, BCount]
RECURSIVE PlaceWords(_, _, _, _, _, _)
PlaceWords(cells, BCnt, row, hasBRow, p3, others) ==
  IF p3 = <<>> THEN [cells |-> cells, BCount |-> BCnt]
  ELSE LET wIndex == Head(p3)
           c == Head(others)
       IN PlaceWords(Put(cells, c, At(row, wIndex)),
                     IF At(hasBRow, wIndex) THEN Put(BCnt, c, At(BCnt, c) + 1)
                     ELSE BCnt,
                     row, hasBRow, Tail(p3), Tail(others))

\* the pruning without its second test
ValidReachOnly(BCnt, rowsLeft) ==
  \A c \in 0..(NumCols - 1) : canStillReach4B(BCnt, c, rowsLeft)

\* the pruning without its first test
ValidOverloadOnly(BCnt, rowsLeft) ==
  \A c \in 0..(NumCols - 1) : ~isOverloadedB(BCnt, c, totalBInPuzzle)

\* the B pruning of one placement
Valid(BCnt, rowsLeft) ==
  \A c \in 0..(NumCols - 1) :
    ~(~canStillReach4B(BCnt, c, rowsLeft) \/ isOverloadedB(BCnt, c, totalBInPuzzle))

\* "Revert X" of frame f with the B counts left one too high in column colX
RevertXKeepB(f) ==
  [XCapacity |-> Put(XCapacity, f.colX, f.oldXCap),
   BXCapacity |-> Put(BXCapacity, f.colX, f.oldBXCap),
   BCount |-> Put(f.oldB, f.colX, At(f.oldB, f.colX) + 1)]

\* "Revert X": the column state after the three restores of frame f
RevertX(f) ==
  [XCapacity |-> Put(XCapacity, f.colX, f.oldXCap),
   BXCapacity |-> Put(BXCapacity, f.colX, f.oldBXCap),
   BCount |-> f.oldB]

\* one turn of "for (const p3 of perms3)": the loop is over and the X is
\* taken back, or the three words are placed and either the pruning rejects
\* the placement or assignRow(pos + 1) is called
TryPerm ==
  /\ pc = "loop"
  /\ Top.at = "perm"
  /\ LET f == Top
         rIdx == At(rowOrder, f.pos)
         perms3 == At(rowNonXPerms, rIdx)
     IN IF f.pi = Len(perms3)
        THEN /\ XCapacity' = RevertX(f).XCapacity
             /\ BXCapacity' = RevertX(f).BXCapacity
             /\ BCount' = RevertX(f).BCount
             /\ stack' = SetTop([f EXCEPT !.at = "col", !.colX = f.colX + 1])
             /\ UNCHANGED <<finalArrangement, prevColX, arg, pc>>
        ELSE LET oldB2 == BCount
                 placed == PlaceWords(At(finalArrangement, rIdx), BCount,
                                      At(rows, rIdx), At(HasB(rows), rIdx),
                                      At(perms3, f.pi), OtherCols(f.colX))
                 rowsLeft == NumRows - (f.pos + 1)
             IN /\ finalArrangement' = Put(finalArrangement, rIdx, placed.cells)
                /\ IF Valid(placed.BCount, rowsLeft)
                   THEN /\ BCount' = placed.BCount
                        /\ stack' = SetTop([f EXCEPT !.at = "wait", !.oldB2 = oldB2])
                        /\ prevColX' = IF solver = "text" THEN f.colX ELSE prevColX
                        /\ arg' = f.pos + 1
                        /\ pc' = "call"
                   ELSE /\ BCount' = oldB2
                        /\ stack' = SetTop([f EXCEPT !.pi = f.pi + 1])
                        /\ UNCHANGED <<prevColX, arg, pc>>
                /\ UNCHANGED <<XCapacity, BXCapacity>>
  /\ UNCHANGED <<solver, memo, ret>>
  /\ UNCHANGED parsedVars
  /\ UNCHANGED driverVars
  /\ UNCHANGED resultVars

\* the result of the recursive call not looked at
foundSolutionNever(r) == FALSE

\* if (assignRow(pos + 1)) { foundSolution = true; break; }
foundSolution(r) == r

\* assignRow(pos + 1) returned to the frame that called it: a solution is
\* memoised and handed up, a failure takes the three words back
Resume ==
  /\ pc = "return"
  /\ stack # <<>>
  /\ LET f == Top
     IN IF foundSolution(ret)
        THEN /\ memo' = memoSet(f.stateKey, TRUE)
             /\ stack' = Pop
             /\ UNCHANGED <<BCount, pc>>
        ELSE /\ BCount' = f.oldB2
             /\ stack' = SetTop([f EXCEPT !.at = "perm", !.pi = f.pi + 1])
             /\ pc' = "loop"
             /\ UNCHANGED memo
  /\ UNCHANGED <<solver, finalArrangement, XCapacity, BXCapacity, prevColX, arg, ret>>
  /\ UNCHANGED parsedVars
  /\ UNCHANGED driverVars
  /\ UNCHANGED resultVars

\* assignRow(0) returned: the grid, or the NoSolution error
Finish ==
  /\ pc = "return"
  /\ stack = <<>>
  /\ outcome' = [outcome EXCEPT ![solver] = IF ret THEN "grid" ELSE "NoSolution"]
  /\ grid' = [grid EXCEPT ![solver] = IF ret THEN finalArrangement ELSE NoGrid]
  /\ pc' = "idle"
  /\ solver' = "none"
  /\ ResetSearch
  /\ UNCHANGED <<verdict, searched>>
  /\ UNCHANGED driverVars

\* validatePuzzle(puzzle, solution)
Validate(k) ==
  /\ pc = "idle"
  /\ NextSolver = (IF k = "text" THEN "check text" ELSE "check packed")
  /\ verdict' = [verdict EXCEPT ![k] =
                   IF validatePuzzle(inputLines, grid[k]) THEN "accepted"
                   ELSE "rejected"]
  /\ UNCHANGED <<pc, solver, outcome, grid, searched>>
  /\ UNCHANGED searchVars
  /\ UNCHANGED driverVars

Next ==
  \/ Generate
  \/ \E v \in Variants : Feed(v)
  \/ \E k \in Solvers : CallSolver(k)
  \/ Enter
  \/ TryColumn
  \/ TryPerm
  \/ Resume
  \/ Finish
  \/ \E k \in Solvers : Validate(k)

Spec == Init /\ [][Next]_vars

\* A solver is sequential code: once assignRow(0) is called, each step of
\* the search is followed by the next one.
SearchStep == Enter \/ TryColumn \/ TryPerm \/ Resume \/ Finish

NumFairSeeds == 1

InitFair == Init /\ seed < NumFairSeeds

FairSpec == InitFair /\ [][Next]_vars /\ WF_vars(SearchStep)

\* ------------------------------------------- the generator on its own
\* generatePuzzleData over more seeds and with each bxCount option
NumGenSeeds == 12

BXOptions == {BXExact(k) : k \in 0..4} \cup {BXRandom}

InitGen ==
  /\ seed \in 0..(NumGenSeeds - 1)
  /\ bxCount \in BXOptions
  /\ puzzle = NoPuzzle
  /\ variant = "asis"
  /\ inputLines = <<>>
  /\ pc = "generate"
  /\ solver = "none"
  /\ IdleSearch
  /\ NoResults
  /\ probe = NoProbe

SpecGen == InitGen /\ [][Generate]_vars

\* ------------------------------------------- encodeState on its own
\* Two search states, and the key each encodeState gives to each.  The
\* states differ in the fields the packed key has least room for.
MaxProbePos == 1

ProbeStates ==
  {[pos |-> p, XCapacity |-> <<4, 4, x2, x3>>, BXCapacity |-> <<bx0, 1, 1, 1>>,
    BCount |-> <<b0, b1, 0, 0>>] :
     p \in 0..MaxProbePos, x2 \in {0, 4}, x3 \in {0, 4}, bx0 \in {0, 1},
     b0 \in {0, NumRows}, b1 \in {0}}

InitKey ==
  /\ probe \in {[a |-> a, b |-> b, keyed |-> FALSE, packedA |-> EmptyStr, packedB |-> EmptyStr,
                  textA |-> EmptyStr, textB |-> EmptyStr] : a \in ProbeStates, b \in ProbeStates}
  /\ seed = 0
  /\ bxCount = BXRandom
  /\ puzzle = NoPuzzle
  /\ variant = "asis"
  /\ inputLines = <<>>
  /\ pc = "keys"
  /\ solver = "none"
  /\ IdleSearch
  /\ NoResults

\* encodeState(pos) of both solvers in state a and in state b
EncodeBoth ==
  /\ pc = "keys"
  /\ ~probe.keyed
  /\ probe' = [probe EXCEPT
                 !.keyed = TRUE,
                 !.packedA = encodeStatePacked(probe.a.pos, probe.a.XCapacity,
                                               probe.a.BXCapacity, probe.a.BCount),
                 !.packedB = encodeStatePacked(probe.b.pos, probe.b.XCapacity,
                                               probe.b.BXCapacity, probe.b.BCount),
                 !.textA = encodeStateText(probe.a.pos, probe.a.XCapacity,
                                           probe.a.BXCapacity, probe.a.BCount),
                 !.textB = encodeStateText(probe.b.pos, probe.b.XCapacity,
                                           probe.b.BXCapacity, probe.b.BCount)]
  /\ UNCHANGED <<seed, bxCount, puzzle, variant, inputLines, pc, solver>>
  /\ UNCHANGED searchVars
  /\ UNCHANGED resultVars

SpecKey == InitKey /\ [][EncodeBoth]_vars

\* ------------------------------------------------------------ the puzzle
\* What the puzzle asks, stated without the search: the column constraints
\* of a grid, rows as rearrangements of rows, and the existence of a solution.
Cols == 0..(NumCols - 1)

ColumnsOk(g) ==
  \A c \in Cols :
    /\ ColCount(g, c, MarkedWords) = 4
    /\ ColCount(g, c, FlaggedWords) >= 4
    /\ ColCount(g, c, {WBX}) <= 1

Occurrences(arr, w) == Cardinality({k \in Indices(arr) : At(arr, k) = w})

\* a and b hold the same words, each as often
SameWords(a, b) ==
  /\ Len(a) = Len(b)
  /\ \A k \in Indices(a) : Occurrences(a, At(a, k)) = Occurrences(b, At(a, k))

RowsPermuted(g, rws) ==
  /\ Len(g) = NumRows
  /\ \A i \in 0..(NumRows - 1) :
       /\ Len(At(g, i)) = NumCols
       /\ \A c \in Cols : At(At(g, i), c) \in Words
       /\ SameWords(At(g, i), At(rws, i))

\* 16 rows of 4 recognised words, one of them marked
WellFormed(lines) ==
  /\ InputError(lines) = ""
  /\ \A i \in 1..NumRows :
       Cardinality({k \in 1..NumCols : IsMarked(ParseRows(lines)[i][k])}) = 1

\* the ways to lay the words of a row on the 4 columns
Layouts(row) == {[c \in 1..NumCols |-> row[f[c]]] : f \in Permutations(1..NumCols)}

\* The counts of a column, kept as one number: marked (0..4) + 5 * BX (0..1)
\* + 10 * flagged, the flagged counted up to 4, which is all the constraints
\* ask of it.  -1: more than 4 marked or more than 1 BX.
ColTally(d, w) ==
  LET x == (d % 5) + (IF IsMarked(w) THEN 1 ELSE 0)
      bx == ((d \div 5) % 2) + (IF w = WBX THEN 1 ELSE 0)
      b == Min(4, (d \div 10) + (IF IsFlagged(w) THEN 1 ELSE 0))
  IN IF x > 4 \/ bx > 1 THEN -1 ELSE x + 5 * bx + 10 * b

\* a tally is the four column counts as the digits of a number to base 50
Weight(c) == CASE c = 1 -> 1 [] c = 2 -> 50 [] c = 3 -> 50 * 50 [] c = 4 -> 50 * 50 * 50

Tally(t, layout) ==
  LET d == [c \in 1..NumCols |-> ColTally((t \div Weight(c)) % 50, layout[c])]
  IN IF \E c \in 1..NumCols : d[c] = -1 THEN -1
     ELSE d[1] + d[2] * Weight(2) + d[3] * Weight(3) + d[4] * Weight(4)

RECURSIVE Tallies(_, _, _)
\* the tallies the rows from i on can bring the tallies in ts to
Tallies(rws, i, ts) ==
  IF i > Len(rws) \/ ts = {} THEN ts
  ELSE LET ls == Layouts(rws[i])
       IN Tallies(rws, i + 1, {Tally(u, l) : u \in ts, l \in ls} \ {-1})

\* 4 marked and 4 flagged in each column, without or with a BX
TallyDone(t) == \A c \in 1..NumCols : (t \div Weight(c)) % 50 \in {44, 49}

HasWBX(row) == \E k \in 1..Len(row) : row[k] = WBX
LacksWBX(row) == ~HasWBX(row)

\* some rearrangement of each row meets the three column constraints: the
\* grid g is one, or the tallies of all rows (taken BX rows first, the order
\* being free) include one that meets them
Solvable(rws, g) ==
  \/ RowsPermuted(g, rws) /\ ColumnsOk(g)
  \/ \E t \in Tallies(SelectSeq(rws, HasWBX) \o SelectSeq(rws, LacksWBX), 1, {0}) :
       TallyDone(t)

\* ------------------------------------------------------------ the claims
Decided(k) == outcome[k] # "none"

\* solver k has just returned its grid to the driver
Returned(k) == pc = "idle" /\ outcome[k] = "grid" /\ verdict[k] = "none"

\* C1: for an input of 16 rows of 4 recognised words with exactly one marked
\* word each, a grid returned by either solver has in every column exactly 4
\* marked entries, at least 4 flagged entries and at most 1 BX.
C1_ColumnsOfGrid ==
  \A k \in Solvers :
    (Returned(k) /\ WellFormed(inputLines)) => ColumnsOk(grid[k])

\* a grid found after backing out of dead ends, by each solver
C1_Witness ==
  /\ variant = "packFlags"
  /\ WellFormed(inputLines)
  /\ \A k \in Solvers : outcome[k] = "grid" /\ ColumnsOk(grid[k])

\* C2: for every accepted input, row i of a returned grid holds the 4 words
\* of input row i, each as often: every cell is filled, no word is added,
\* lost or moved to another row.
C2_RowsOfGrid ==
  \A k \in Solvers :
    Returned(k) => RowsPermuted(grid[k], ParseRows(inputLines))

\* a grid for an accepted input, well-formed or not
C2_Witness ==
  /\ variant = "twoMarked"
  /\ outcome["packed"] = "grid"
  /\ grid["packed"] # ParseRows(inputLines)
  /\ RowsPermuted(grid["packed"], ParseRows(inputLines))

\* C3: on a well-formed instance the text-key solver returns a grid if some
\* rearrangement of the rows meets the column constraints, and reports
\* NoSolution only if none does.
C3_TextSolverComplete ==
  (/\ pc = "idle"
   /\ Decided("text")
   /\ verdict["text"] = "none"
   /\ ~Decided("packed")
   /\ WellFormed(inputLines))
  => (outcome["text"] = "grid" <=> Solvable(ParseRows(inputLines), puzzle.solution))

\* NoSolution after a search that met memo hits and both prunes
C3_WitnessNoSolution ==
  /\ variant = "overMark"
  /\ WellFormed(inputLines)
  /\ outcome["text"] = "NoSolution"

\* a grid for an instance whose first placements lead nowhere
C3_Witness ==
  /\ variant = "packFlags"
  /\ WellFormed(inputLines)
  /\ outcome["text"] = "grid"
  /\ pc = "idle"

\* C4: on every accepted input the two solvers give the same verdict, both a
\* grid or both NoSolution, and the grids they return meet the row and the
\* column constraints.
C4_SolversAgree ==
  (/\ pc = "idle"
   /\ Decided("packed")
   /\ verdict["packed"] = "none"
   /\ outcome["text"] # "MalformedInput")
  => /\ outcome["packed"] = outcome["text"]
     /\ \A k \in Solvers :
          outcome[k] = "grid" =>
            RowsPermuted(grid[k], ParseRows(inputLines)) /\ ColumnsOk(grid[k])

\* C5: the packed key of two search states is the same exactly when the
\* states are equal in every field, that is exactly when their text keys are
\* the same.
C5_PackedKeyInjective ==
  probe.keyed =>
    /\ (probe.packedA = probe.packedB) <=> (probe.a = probe.b)
    /\ (probe.packedA = probe.packedB) <=> (probe.textA = probe.textB)

\* the runs of non-blank characters of a line, by the place each starts at
TokenStarts(line) ==
  {i \in 1..Len(line) : ~IsSpace(line[i]) /\ (i = 1 \/ IsSpace(line[i - 1]))}

TokenAt(line, i) ==
  LET j == CHOOSE e \in i..Len(line) :
             /\ \A n \in i..e : ~IsSpace(line[n])
             /\ (e = Len(line) \/ IsSpace(line[e + 1]))
  IN SubSeq(line, i, j)

\* not 16 lines, or a line that is not 4 tokens, or a token that is no label
Malformed(lines) ==
  \/ Len(lines) # NumRows
  \/ \E n \in 1..Len(lines) :
       \/ Cardinality(TokenStarts(lines[n])) # NumCols
       \/ \E i \in TokenStarts(lines[n]) : TokenAt(lines[n], i) \notin Words

\* C6: an input that has not 16 lines, or a line that does not split into 4
\* tokens, or a token outside {A, B, AX, BX} is rejected with MalformedInput:
\* no grid, no NoSolution, and no search started.
C6_MalformedRejected ==
  \A k \in Solvers :
    (pc = "idle" /\ Decided(k) /\ Malformed(inputLines))
    => (outcome[k] = "MalformedInput" /\ grid[k] = NoGrid /\ ~searched[k])

\* each way of being malformed, rejected by both solvers
C6_WitnessLines == variant = "fewLines" /\ \A k \in Solvers : outcome[k] = "MalformedInput"
C6_WitnessWords == variant = "fewWords" /\ \A k \in Solvers : outcome[k] = "MalformedInput"
C6_Witness == variant = "badLabel" /\ \A k \in Solvers : outcome[k] = "MalformedInput"

\* some row of 4 labels has two marked words, or none
IllMarked(lines) ==
  /\ ~Malformed(lines)
  /\ \E n \in 1..Len(lines) :
       Cardinality({i \in TokenStarts(lines[n]) : IsMarked(TokenAt(lines[n], i))}) # 1

\* C7: an input of 16 lines of 4 labels in which some row has two marked
\* words or none is rejected with MalformedInput.
C7_IllMarkedRejected ==
  \A k \in Solvers :
    (pc = "idle" /\ Decided(k) /\ IllMarked(inputLines))
    => outcome[k] = "MalformedInput"

\* the assignRow calls that are under way, the one being entered included
Depth == Len(stack) + (IF pc = "call" THEN 1 ELSE 0)

Searching == pc \in {"call", "loop", "return"}

PositionsInRange ==
  Searching =>
    /\ arg \in 0..NumRows
    /\ Depth <= NumRows + 1
    /\ \A i \in 1..Len(stack) : stack[i].pos = i - 1 /\ stack[i].pos < NumRows

\* the call ended in a 16 x 4 grid or in NoSolution, not both
Ended(k) ==
  /\ outcome[k] \in {"grid", "NoSolution"}
  /\ outcome[k] = "NoSolution" <=> grid[k] = NoGrid
  /\ outcome[k] = "grid" =>
       Len(grid[k]) = NumRows /\ \A i \in 1..NumRows : Len(grid[k][i]) = NumCols

\* C8: on every accepted input the search terminates: the position stays in
\* 0..16, at most 17 assignRow calls are under way at any time, and the call
\* ends in a 16 x 4 grid or in NoSolution.
C8_SearchTerminates ==
  /\ []PositionsInRange
  /\ \A k \in Solvers : searched[k] ~> Ended(k)

\* 17 calls under way, the last one at position 16
C8_Witness == pc = "call" /\ arg = NumRows /\ Depth = NumRows + 1

\* a search that ended without a solution, after backing out of every row
C8_WitnessNoSolution ==
  variant = "overMark" /\ searched["packed"] /\ Ended("packed") /\ outcome["packed"] = "NoSolution"

\* the words of the generated lines
GeneratedRows == [i \in 1..Len(puzzle.lines) |-> WordsOf(puzzle.lines[i])]

\* C9: for every seed and every bxCount k in 0..4, generatePuzzleData returns
\* 16 lines of 4 labels, one marked word to a line, k BX words and 16 to 20
\* flagged words in all, and the lines are the rows, each reshuffled, of a grid
\* whose every column has exactly 4 marked, at least 4 flagged and at most 1
\* BX entries.
C9_GeneratedInstance ==
  pc # "generate" =>
    /\ ~puzzle.err
    /\ Len(puzzle.lines) = NumRows
    /\ ~Malformed(puzzle.lines)
    /\ ~IllMarked(puzzle.lines)
    /\ CountWords(puzzle.lines, {WBX}) \in 0..4
    /\ ~bxCount.random => CountWords(puzzle.lines, {WBX}) = bxCount.count
    /\ CountWords(puzzle.lines, FlaggedWords) \in 16..20
    /\ RowsPermuted(puzzle.solution, GeneratedRows)
    /\ ColumnsOk(puzzle.solution)

\* an instance with a BX in every column, asked for by number
C9_Witness ==
  /\ pc # "generate"
  /\ bxCount = BXExact(4)
  /\ CountWords(puzzle.lines, {WBX}) = 4
  /\ puzzle.lines # [i \in 1..NumRows |-> LineOf(puzzle.solution[i])]

\* C10: validatePuzzle accepts a grid exactly when each of its rows holds the
\* words the solver parsed from the input line, each as often, and its columns
\* meet the three constraints; so the grid a solver returns for a well-formed
\* input is accepted.
C10_ValidatorExact ==
  \A k \in Solvers :
    (pc = "idle" /\ verdict[k] # "none")
    => /\ verdict[k] = "accepted" <=>
            (RowsPermuted(grid[k], ParseRows(inputLines)) /\ ColumnsOk(grid[k]))
       /\ WellFormed(inputLines) => verdict[k] = "accepted"

\* ------------------------------------------------- the search, step by step
ColumnState == <<XCapacity, BXCapacity, BCount>>

\* the column state of frame f once its row's first word stands in column
\* f.colX, told from the state the call was entered in
AfterX(f) ==
  LET rIdx == At(rowOrder, f.pos)
      X0 == f.entry[1]
      BX0 == f.entry[2]
      B0 == f.entry[3]
  IN <<Put(X0, f.colX, At(X0, f.colX) - 1),
       IF At(rows, rIdx)[1] = WBX THEN Put(BX0, f.colX, At(BX0, f.colX) - 1) ELSE BX0,
       IF Includes(At(rows, rIdx)[1], "B") THEN Put(B0, f.colX, At(B0, f.colX) + 1) ELSE B0>>

\* each candidate column is tried in the state the call was entered in, and
\* each permutation in that state with only the first word placed
UndoneBetweenTries ==
  (pc = "loop" /\ stack # <<>>) =>
    /\ Top.at = "col" => ColumnState = Top.entry
    /\ Top.at = "perm" => ColumnState = AfterX(Top)

\* a step that makes a call return false leaves the column state as it was,
\* and as the returning call found it
FalseReturnRestores ==
  (pc # "return" /\ pc' = "return" /\ ~ret') =>
    /\ ColumnState' = ColumnState
    /\ pc = "loop" => ColumnState = Top.entry

\* C11: when assignRow(pos) returns false the three column-state arrays hold
\* the values they had when the call was entered, and inside a call the next
\* permutation and the next candidate column are tried in the state that held
\* before the failed one was applied.
C11_UndoDiscipline ==
  /\ []UndoneBetweenTries
  /\ [][FalseReturnRestores]_vars

\* a call that tried all four columns of a BX row and is about to fail
C11_Witness ==
  /\ pc = "loop"
  /\ stack # <<>>
  /\ Top.at = "col"
  /\ Top.colX = NumCols
  /\ Top.pos >= 1
  /\ At(rows, At(rowOrder, Top.pos))[1] = WBX

\* What a word does to the counts of the column it is laid on, as the search
\* sees it: the row's first word takes marked capacity (1), a BX first word
\* flagged-marked capacity as well (2), and any word with a B is counted (4).
FirstCode(w) == 1 + (IF w = WBX THEN 2 ELSE 0) + (IF Includes(w, "B") THEN 4 ELSE 0)
OtherCode(w) == IF Includes(w, "B") THEN 4 ELSE 0
RowCodes(row) == <<FirstCode(row[1]), OtherCode(row[2]), OtherCode(row[3]), OtherCode(row[4])>>

\* the counts of a column (as in ColTally) after a word of code k
ColStep(d, k) ==
  LET x == (d % 5) + (k % 2)
      bx == ((d \div 5) % 2) + ((k \div 2) % 2)
      b == Min(4, (d \div 10) + (k \div 4))
  IN IF x > 4 \/ bx > 1 THEN -1 ELSE x + 5 * bx + 10 * b

PlaceTally(t, layout) ==
  LET d == [c \in 1..NumCols |-> ColStep((t \div Weight(c)) % 50, layout[c])]
  IN IF \E c \in 1..NumCols : d[c] = -1 THEN -1
     ELSE d[1] + d[2] * Weight(2) + d[3] * Weight(3) + d[4] * Weight(4)

RECURSIVE PlaceTallies(_, _, _)
\* the tallies the rows (of codes) from i on can bring the tallies in ts to
PlaceTallies(codes, i, ts) ==
  IF i > Len(codes) \/ ts = {} THEN ts
  ELSE LET ls == Layouts(codes[i])
       IN PlaceTallies(codes, i + 1, {PlaceTally(u, l) : u \in ts, l \in ls} \ {-1})

\* the tally of a column state <<XCapacity, BXCapacity, BCount>>
StateTally(st) ==
  LET d == [c \in 1..NumCols |->
              (InitXCapacity - st[1][c]) + 5 * (1 - st[2][c]) + 10 * Min(4, st[3][c])]
  IN d[1] + d[2] * Weight(2) + d[3] * Weight(3) + d[4] * Weight(4)

\* some placement of the rows at positions pos..15 takes column state st to
\* the terminal condition: no pruning and no memo in this
Completable(pos, st) ==
  LET codes == [n \in 1..(NumRows - pos) |-> RowCodes(At(rows, At(rowOrder, pos + n - 1)))]
  IN \E t \in PlaceTallies(codes, 1, {StateTally(st)}) : TallyDone(t)

\* the text-key call about to store false: its key names the state it was
\* entered in, and nothing below that state reaches the terminal condition
FalseEntrySound ==
  (pc = "loop" /\ solver = "text" /\ stack # <<>> /\ Top.at = "col" /\ Top.colX = NumCols) =>
    /\ Top.stateKey = encodeStateText(Top.pos, Top.entry[1], Top.entry[2], Top.entry[3])
    /\ ~Completable(Top.pos, Top.entry)

\* within a solve of the text-key solver a stored entry never changes; false
\* is stored by the call that has tried all four columns, true by a call whose
\* recursive call returned true, with the terminal condition met
MemoWrittenWhenDecided ==
  (solver = "text" /\ solver' = "text" /\ pc # "idle") =>
    /\ \A key \in DOMAIN memo : key \in DOMAIN memo' /\ memo'[key] = memo[key]
    /\ \A key \in DOMAIN memo' \ DOMAIN memo :
         /\ stack # <<>>
         /\ key = Top.stateKey
         /\ ~memo'[key] => (pc = "loop" /\ Top.at = "col" /\ Top.colX = NumCols)
         /\ memo'[key] => (pc = "return" /\ ret /\ Top.at = "wait" /\ FinalCheck)

\* C12: in the text-key solver a memo entry false is keyed by a (position,
\* column state) from which no placement of the remaining rows reaches the
\* terminal condition, and is written only after every column and permutation
\* of the row failed; an entry true is written only after a full solution was
\* found below it.
C12_MemoSound ==
  /\ []FalseEntrySound
  /\ [][MemoWrittenWhenDecided]_vars

\* the memo of the text-key solver holding both a false entry and a true one
C12_Witness ==
  /\ solver = "text"
  /\ \E k1 \in DOMAIN memo : ~memo[k1]
  /\ \E k2 \in DOMAIN memo : memo[k2]

\* a call has just returned true
Found == pc = "return" /\ ret

\* true comes from the call at position 16 only; once it has been returned,
\* each step hands it to the next pending frame with no counter and no cell
\* written and no call made, and the last step returns the grid as it stands
SolutionUnwinds ==
  /\ (pc # "return" /\ pc' = "return" /\ ret') => (pc = "call" /\ arg = NumRows)
  /\ (Found /\ stack # <<>>) =>
       /\ ColumnState' = ColumnState
       /\ finalArrangement' = finalArrangement
       /\ stack' = Pop
       /\ Found'
  /\ (Found /\ stack = <<>>) =>
       /\ outcome'[solver] = "grid"
       /\ grid'[solver] = finalArrangement

\* C13: once a call at position 16 has returned true no further alternative
\* is tried: no column-state counter and no cell of the grid is written again,
\* no assignRow call is made, and every pending frame returns true, up to the
\* solver returning the grid.
C13_FirstSolution ==
  /\ [][SolutionUnwinds]_vars
  /\ \A k \in Solvers : (Found /\ solver = k) ~> (outcome[k] = "grid")

\* true on its way up through the frames of a search that had backed out of
\* dead ends before
C13_Witness ==
  /\ Found
  /\ Len(stack) = 8
  /\ \E key \in DOMAIN memo : ~memo[key]

\* C14: every call assignRow(pos) with pos >= 1 is entered in a state where
\* each column c has flagged-count[c] + (16 - pos) >= 4 and flagged-count[c]
\* <= (flagged words of the puzzle) - 12: a placement that breaks either
\* condition in some column is given up without a recursive call.
C14_PrunesGateCalls ==
  (pc = "call" /\ arg >= 1) =>
    \A c \in Cols :
      /\ At(BCount, c) + (NumRows - arg) >= 4
      /\ At(BCount, c) <= CountWords(inputLines, FlaggedWords) - 12

\* a call entered with a column at each of the two limits
C14_Witness ==
  /\ pc = "call"
  /\ arg >= 1
  /\ arg < NumRows
  /\ \E c \in Cols : At(BCount, c) + (NumRows - arg) = 4
  /\ \E c \in Cols : At(BCount, c) = CountWords(inputLines, FlaggedWords) - 12

\* position 0..16, marked capacity 0..4, flagged-marked capacity 0..1 and
\* flagged count 0..16, in every state of a search
FieldRanges ==
  Searching =>
    /\ arg \in 0..NumRows
    /\ \A i \in 1..Len(stack) : stack[i].pos \in 0..NumRows
    /\ \A c \in Cols :
         /\ At(XCapacity, c) \in 0..4
         /\ At(BXCapacity, c) \in 0..1
         /\ At(BCount, c) \in 0..16

\* the columns whose cell of the current row the step writes: the candidate
\* column when the first word is placed, the three others when a permutation is
WrittenCols ==
  IF pc # "loop" \/ pc' = "return" THEN {}
  ELSE IF Top.at = "col" THEN (IF stack'[Len(stack)].at = "perm" THEN {Top.colX} ELSE {})
  ELSE IF Top.pi < Len(At(rowNonXPerms, At(rowOrder, Top.pos))) THEN Cols \ {Top.colX}
  ELSE {}

\* a step lays a marked word only on a column with marked capacity left, and
\* a BX only on a column with flagged-marked capacity left
PlacedWhereRoom ==
  \A c \in WrittenCols :
    LET w == At(At(finalArrangement', At(rowOrder, Top.pos)), c)
    IN /\ IsMarked(w) => At(XCapacity, c) > 0
       /\ w = WBX => At(BXCapacity, c) > 0

\* C15: in every state of a search on an accepted input the position is in
\* 0..16, each marked capacity in 0..4, each flagged-marked capacity in 0..1
\* and each flagged count in 0..16; and a marked word is only ever placed in a
\* column whose marked capacity is > 0 and, for a BX, whose flagged-marked
\* capacity is > 0.
C15_FieldRanges ==
  /\ []FieldRanges
  /\ [][PlacedWhereRoom]_vars

\* the text key of the state a call is made in
CalledKey == encodeStateText(arg, XCapacity, BXCapacity, BCount)

\* a step of the text-key solver within one solve
TextStep == solver = "text" /\ solver' = "text" /\ pc # "idle"

\* Placements start being enumerated (a frame is opened) only for a state
\* that has no memo entry and no open frame; the frame that closes leaves an
\* entry for its state; entries stay.  So no state is enumerated twice.
EnumeratedOnce ==
  TextStep =>
    /\ (pc = "call" /\ pc' = "loop") =>
         /\ CalledKey \notin DOMAIN memo
         /\ \A i \in 1..Len(stack) :
              stack[i].stateKey # CalledKey /\ <<stack[i].pos, stack[i].entry>> # <<arg, ColumnState>>
         /\ stack' = Append(stack, NewFrame(arg, CalledKey))
    /\ Len(stack') < Len(stack) => Top.stateKey \in DOMAIN memo'
    /\ DOMAIN memo \subseteq DOMAIN memo'

\* a call made in a state whose result is stored returns the stored boolean
\* at once: no counter, no cell and no frame changes and no call is made
HitShortCircuits ==
  (TextStep /\ pc = "call" /\ arg < NumRows /\ CalledKey \in DOMAIN memo) =>
    /\ pc' = "return"
    /\ ret' = memo[CalledKey]
    /\ ColumnState' = ColumnState
    /\ finalArrangement' = finalArrangement
    /\ stack' = stack
    /\ memo' = memo

\* C16: in one solve of the text-key solver no (position, column state) has
\* its placements enumerated more than once: the memo is consulted before any
\* candidate column is tried, and a later arrival at a state whose result is
\* stored returns that boolean without changing a counter or a grid cell and
\* without recursing.
C16_EnumeratedOnce == [][EnumeratedOnce /\ HitShortCircuits]_vars

\* a later arrival at a state whose result is stored
C16_Witness ==
  /\ solver = "text"
  /\ pc = "call"
  /\ arg < NumRows
  /\ CalledKey \in DOMAIN memo

\* all marked capacities 0, all flagged counts >= 4, no flagged-marked
\* capacity below 0
TerminalMet ==
  \A c \in Cols :
    /\ At(XCapacity, c) = 0
    /\ At(BCount, c) >= 4
    /\ At(BXCapacity, c) >= 0

\* C17: at every entry of assignRow(pos) the four marked capacities sum to
\* 16 - pos, and a call that reaches position 16 finds the terminal condition
\* met and returns true; false is only ever returned by calls at 0..15.
C17_TerminalCheckPasses ==
  /\ pc = "call" =>
       /\ SumSeq(XCapacity) = NumRows - arg
       /\ arg = NumRows => (TerminalMet /\ FinalCheck)
  /\ (pc = "return" /\ ~ret) =>
       (Len(stack) < NumRows /\ \A i \in 1..Len(stack) : stack[i].pos < NumRows)

\* the call at position 16, entered with a column at exactly 4 flagged words
C17_Witness ==
  /\ pc = "call"
  /\ arg = NumRows
  /\ \E c \in Cols : At(BCount, c) = 4
  /\ variant = "packFlags"

\* the key of the state a call is made in, as the running solver encodes it
LookupKey == encodeState(arg)

\* C18: no memo lookup finds an entry with value true, in either solver: true
\* entries are written only while a found solution unwinds, after which no
\* lookup happens.  So a successful call skips no row, and on success every
\* cell of the 16 output rows was written on the successful path.
C18_NoTrueHit ==
  /\ (pc = "call" /\ arg < NumRows /\ LookupKey \in DOMAIN memo) => ~memo[LookupKey]
  /\ (Searching /\ \E key \in DOMAIN memo : memo[key]) => Found
  /\ Found =>
       /\ \A i \in 1..Len(stack) : stack[i].pos = i - 1 /\ stack[i].at = "wait"
       /\ \A i \in 1..NumRows : \A c \in 1..NumCols : finalArrangement[i][c] \in Words

\* a lookup by the packed-key solver that finds an entry
C18_WitnessHit ==
  /\ solver = "packed"
  /\ pc = "call"
  /\ arg < NumRows
  /\ LookupKey \in DOMAIN memo

\* true entries being written while the solution unwinds, in a memo that
\* holds false entries from before
C18_Witness ==
  /\ Found
  /\ Len(stack) = 5
  /\ \E key \in DOMAIN memo : memo[key]
  /\ \E key \in DOMAIN memo : ~memo[key]

====
